---- MODULE Spec2Model ----
(***************************************************************************)
(* A model of bin/git-review.py: the "send my branch for review" workflow  *)
(* (resolve the branch references, validate, push, request a review,       *)
(* optionally submit) run against a model of the local git repository.     *)
(*                                                                         *)
(* Python strings are sequences of one-character strings, so that split,   *)
(* rsplit, endswith, slicing and the regular expression are computed as    *)
(* the code computes them.  Python's None is the value None below.         *)
(***************************************************************************)
EXTENDS Integers, Sequences, FiniteSets, TLC

VARIABLES
    commits,      \* the commit graph: commits[c] = [parent, tree, msg]
    heads,        \* refs/heads/<name> -> commit
    remotes,      \* refs/remotes/origin/<name> -> commit
    originHEAD,   \* the branch refs/remotes/origin/HEAD points to
    HEAD,         \* the checked-out local branch
    worktree,     \* content (tree id) of the working tree
    mergeCfg,     \* branch.<name>.merge for the branches that have one
    remoteUrl,    \* remote.origin.url
    cache,        \* the lru_cache of _get_head, _get_default, _get_existing_remote
    pc,           \* position of the running workflow
    args,         \* arguments of the running workflow
    refs,         \* the _References of the running workflow
    error,        \* the error the run ended with ("none" while there is none)
    trace,        \* the steps the current run has completed, in order
    pushes,       \* the push commands the current run issued: [src, dst, forced, ok]
    reviews,      \* the review requests the platform holds
    submits,      \* number of "git submit" invocations the current run made
    runs,         \* number of workflow runs started
    moved,        \* whether the remote-tracking ref moved during the current run
    hint,         \* the branch list carried by the "branch required" error
    prev,         \* the previous run, while the repository is as that run left it
    hook,         \* the review hook as the current run found it ("unread" before)
    sent          \* what the current run gave the platform: [message, title, description]

repoVars == <<commits, heads, remotes, originHEAD, HEAD, worktree, mergeCfg, remoteUrl>>
runVars == <<cache, pc, args, refs, error, trace, pushes, reviews, submits, runs, moved,
            hint, prev, hook, sent>>
vars == <<commits, heads, remotes, originHEAD, HEAD, worktree, mergeCfg, remoteUrl,
          cache, pc, args, refs, error, trace, pushes, reviews, submits, runs, moved,
          hint, prev, hook, sent>>

----------------------------------------------------------------------------
(* Bounds of the model. *)

\* Number of commits the repository may hold.
MaxCommits == 2
\* Number of distinct contents (tree ids 0..MaxTree) of the working tree.
MaxTree == 1
\* Number of workflow runs.
MaxRuns == 1
\* Length of the history of the checked-out branch in the resolver's inputs.
MaxChain == 6
\* Number of successive runs in the specification of re-runs.
MaxReruns == 2
\* Number of commits the repository may hold in the specification of re-runs.
MaxRerunCommits == 3
\* Number of calls of the workflow in one process.
MaxCalls == 2
\* Length of the usernames given to the branch-name clean-up.
MaxNameLen == 2

----------------------------------------------------------------------------
(* Python values and string operations. *)

None == <<"<None>">>
Unset == <<"<unset>">>

\* bool(x) of an Optional[str].
Truthy(x) == x # None /\ x # <<>>

StartsWith(s, p) == Len(s) >= Len(p) /\ SubSeq(s, 1, Len(p)) = p

\* s.endswith(p)
EndsWith(s, p) == Len(s) >= Len(p) /\ SubSeq(s, Len(s) - Len(p) + 1, Len(s)) = p

\* s[n:]
DropChars(s, n) == SubSeq(s, n + 1, Len(s))

\* p in s, for strings.
Contains(s, p) == \E i \in 1..(Len(s) - Len(p) + 1) : SubSeq(s, i, i + Len(p) - 1) = p

\* s.split(sep) for a one-character separator: the list of the pieces.
RECURSIVE Split(_, _)
Split(s, sep) ==
    IF \A i \in 1..Len(s) : s[i] # sep
    THEN <<s>>
    ELSE LET i == CHOOSE j \in 1..Len(s) :
                      s[j] = sep /\ \A k \in 1..(j - 1) : s[k] # sep
         IN <<SubSeq(s, 1, i - 1)>> \o Split(SubSeq(s, i + 1, Len(s)), sep)

\* s.rsplit(sep, 1)[-1]: what follows the last separator (all of s without one).
RSplitLast(s, sep) ==
    IF \A i \in 1..Len(s) : s[i] # sep
    THEN s
    ELSE LET i == CHOOSE j \in 1..Len(s) :
                      s[j] = sep /\ \A k \in (j + 1)..Len(s) : s[k] # sep
         IN SubSeq(s, i + 1, Len(s))

\* s.split(sep, 1): one piece without a separator, else what precedes the
\* first separator and what follows it.
SplitOnce(s, sep) ==
    IF \A i \in 1..Len(s) : s[i] # sep
    THEN <<s>>
    ELSE LET i == CHOOSE j \in 1..Len(s) :
                      s[j] = sep /\ \A k \in 1..(j - 1) : s[k] # sep
         IN <<SubSeq(s, 1, i - 1), SubSeq(s, i + 1, Len(s))>>

\* The characters str.strip() removes, among those of the model.
Whitespace(c) == c \in {" ", "\n"}

\* s.strip()
RECURSIVE Strip(_)
Strip(s) ==
    IF s = <<>> THEN s
    ELSE IF Whitespace(s[1]) THEN Strip(Tail(s))
    ELSE IF Whitespace(s[Len(s)]) THEN Strip(SubSeq(s, 1, Len(s) - 1))
    ELSE s

\* Code points of the characters branch names are made of.
Ord(c) ==
    CASE c = " " -> 32 [] c = "\"" -> 34 [] c = "#" -> 35 [] c = "-" -> 45
      [] c = "/" -> 47 [] c = "1" -> 49 [] c = ">" -> 62
      [] c = "A" -> 65 [] c = "D" -> 68 [] c = "E" -> 69 [] c = "H" -> 72
      [] c = "d" -> 100 [] c = "e" -> 101 [] c = "f" -> 102 [] c = "m" -> 109
      [] c = "r" -> 114 [] c = "s" -> 115 [] c = "u" -> 117 [] c = "v" -> 118
      [] c = "x" -> 120 [] c = "ß" -> 223 [] c = "é" -> 233
      [] c = "U+FF03" -> 65283

\* a < b in the byte order git sorts ref names by.
RECURSIVE LexLess(_, _)
LexLess(a, b) ==
    IF b = <<>> THEN FALSE
    ELSE IF a = <<>> THEN TRUE
    ELSE IF Ord(a[1]) # Ord(b[1]) THEN Ord(a[1]) < Ord(b[1])
    ELSE LexLess(Tail(a), Tail(b))

\* The elements of a set of strings, smallest first.
RECURSIVE Sorted(_)
Sorted(S) ==
    IF S = {} THEN <<>>
    ELSE LET lo == CHOOSE x \in S : \A y \in S \ {x} : LexLess(x, y)
         IN <<lo>> \o Sorted(S \ {lo})

\* list.index-style membership and list.remove(x) on a list that holds x.
InList(l, x) == \E i \in 1..Len(l) : l[i] = x
RemoveFirst(l, x) ==
    LET i == CHOOSE j \in 1..Len(l) : l[j] = x /\ \A k \in 1..(j - 1) : l[k] # x
    IN SubSeq(l, 1, i - 1) \o SubSeq(l, i + 1, Len(l))

----------------------------------------------------------------------------
(* Program constants. *)

\* _REMOTE_REPO + '/'
OriginSlash == <<"o", "r", "i", "g", "i", "n", "/">>
\* how "git branch -r" prints the symbolic ref origin/HEAD
OriginHeadArrow == <<"o", "r", "i", "g", "i", "n", "/", "H", "E", "A", "D", " ", "-", ">", " ">>
RefsHeads == <<"r", "e", "f", "s", "/", "h", "e", "a", "d", "s", "/">>
\* the literal of line 72, whose length is what the code slices off
RefsHeadsLiteral == <<"r", "e", "f", "s", ".", "h", "e", "a", "d", "s", ".">>
\* --max-count of the rev-list of _get_best_base_branch
RevListMaxCount == 5

----------------------------------------------------------------------------
(* The git queries the script issues, on the repository of the state. *)

Commits == 1..Len(commits)

\* The commits reachable from c, c included (the history has no merges).
RECURSIVE Ancestors(_)
Ancestors(c) == IF c = 0 THEN {} ELSE {c} \cup Ancestors(commits[c].parent)

\* git rev-list --max-count=n c
RECURSIVE RevList(_, _)
RevList(c, n) ==
    IF c = 0 \/ n = 0 THEN <<>> ELSE <<c>> \o RevList(commits[c].parent, n - 1)

Max(S) == CHOOSE x \in S : \A y \in S : y <= x

\* git merge-base a b: 0 when the two have no common ancestor (exit status 1).
MergeBase(a, b) ==
    LET common == Ancestors(a) \cap Ancestors(b)
    IN IF common = {} THEN 0 ELSE Max(common)

\* _has_git_diff(c): git diff --quiet <c> compares the working tree with c.
HasGitDiff(c) == worktree # commits[c].tree

\* git branch -r --contains sha --list origin/*: the lines of the stripped
\* output, sorted by ref name; origin/HEAD is listed as a symbolic ref.
BranchRContains(sha) ==
    LET names == {n \in DOMAIN remotes : sha \in Ancestors(remotes[n])}
        headIn == originHEAD \in names
        keys == names \cup (IF headIn THEN {<<"H", "E", "A", "D">>} ELSE {})
        order == Sorted(keys)
        text(k) == IF k = <<"H", "E", "A", "D">>
                   THEN OriginHeadArrow \o OriginSlash \o originHEAD
                   ELSE OriginSlash \o k
    IN [i \in 1..Len(order) |->
            IF i = 1 THEN text(order[i]) ELSE <<" ", " ">> \o text(order[i])]

\* git branch --format="%(refname:short)": the format holds the two quote
\* characters, which git prints around every name.
BranchFormatQuoted ==
    LET order == Sorted(DOMAIN heads)
    IN [i \in 1..Len(order) |-> <<"\"">> \o order[i] \o <<"\"">>]

----------------------------------------------------------------------------
(* The branch resolver. *)

\* _get_head(), through its lru_cache.
GetHead == IF cache.head = Unset THEN HEAD ELSE cache.head

\* git rev-parse --abbrev-ref origin/HEAD, then .split('/')[1]
ReadDefault == Split(OriginSlash \o originHEAD, "/")[2]

\* _get_default(), through its lru_cache.
GetDefault == IF cache.default = Unset THEN ReadDefault ELSE cache.default

\* git config branch.<head>.merge, sliced by len('refs.heads.'); None when
\* the command fails because the key is not set.
ReadExistingRemote ==
    IF GetHead \in DOMAIN mergeCfg
    THEN DropChars(mergeCfg[GetHead], Len(RefsHeadsLiteral))
    ELSE None

\* _get_existing_remote(), through its lru_cache.
GetExistingRemote == IF cache.existing = Unset THEN ReadExistingRemote ELSE cache.existing

\* The character U+FF03 (fullwidth number sign), written by its code point.
FullwidthNumberSign == "U+FF03"

\* unidecode.unidecode of one character.
Unidecode(c) ==
    CASE c = "é" -> <<"e">>
      [] c = "ß" -> <<"s", "s">>
      [] c = FullwidthNumberSign -> <<"#">>
      [] OTHER -> <<c>>

\* _cleanup_branch_name
RECURSIVE CleanupBranchName(_)
CleanupBranchName(s) ==
    IF s = <<>> THEN <<>>
    ELSE IF Head(s) = "#" THEN CleanupBranchName(Tail(s))
    ELSE Unidecode(Head(s)) \o CleanupBranchName(Tail(s))

\* _get_best_base_branch
GetBestBaseBranch(branch, default) ==
    LET shas == RevList(heads[branch], RevListMaxCount)
        hits == {i \in 1..Len(shas) : BranchRContains(shas[i]) # <<>>}
    IN IF hits = {} THEN None
       ELSE LET first == CHOOSE i \in hits : \A j \in hits : i <= j
                remote_branches == BranchRContains(shas[first])
            IN IF \E i \in 1..Len(remote_branches) :
                      EndsWith(remote_branches[i], <<"/">> \o default)
               THEN None
               ELSE RSplitLast(remote_branches[1], "/")

NoRefs == [default |-> None, branch |-> None, remote |-> None, base |-> None]

\* the base of lines 92-93
ChooseBase(base, branch, default) ==
    IF ~Truthy(base)
    THEN LET best == GetBestBaseBranch(branch, default)
         IN IF Truthy(best) THEN best ELSE default
    ELSE base

\* A bug that names the remote branch after the user whatever was pushed before.
ChooseRemoteSynthesized(username, branch) ==
    CleanupBranchName(username \o <<"-">> \o branch)

\* the remote branch name of line 95
ChooseRemote(username, branch) ==
    LET existing == GetExistingRemote
    IN IF Truthy(existing) THEN existing
       ELSE CleanupBranchName(username \o <<"-">> \o branch)

\* the check of line 82
OnDefault(branch, default) == branch = default

\* A bug that skips the check when the caller names the base.
IsDirtyUnlessBase == ~Truthy(args.base) /\ HasGitDiff(heads[HEAD])

\* the check of line 87
IsDirty == HasGitDiff(heads[HEAD])

\* _get_git_branches: the error it raises ("none" when it returns), the
\* branch list of the message, and the references it returns.
GetGitBranches(username, base) ==
    LET branch == GetHead
        default == GetDefault
    IN IF OnDefault(branch, default)
       THEN LET all_branches == BranchFormatQuoted
            IN IF InList(all_branches, default)
               THEN [err |-> "branch required",
                     aux |-> RemoveFirst(all_branches, default), refs |-> NoRefs]
               ELSE [err |-> "list.remove(x): x not in list",
                     aux |-> <<>>, refs |-> NoRefs]
       ELSE IF IsDirty
       THEN [err |-> "dirty", aux |-> <<>>, refs |-> NoRefs]
       ELSE [err |-> "none", aux |-> <<>>,
             refs |-> [default |-> default, branch |-> branch,
                       remote |-> ChooseRemote(username, branch),
                       base |-> ChooseBase(base, branch, default)]]

----------------------------------------------------------------------------
(* The message of the review request. *)

\* git log --format=%B <excluded>..c: the raw message of every commit of c
\* that is not in `excluded`, newest first, each followed by a newline.
RECURSIVE LogBodies(_, _)
LogBodies(c, excluded) ==
    IF c = 0 \/ c \in excluded THEN <<>>
    ELSE commits[c].msg \o <<"\n">> \o LogBodies(commits[c].parent, excluded)

\* os.access(hook_script, os.X_OK)
HookExecutable(h) == h \in {"ok", "fails"}

\* A bug that takes the output of the hook whatever its exit status.
HookNeverFails(h) == FALSE

\* whether check_output of the hook raises CalledProcessError
HookFails(h) == h = "fails"

\* What the hook of the model prints.
HookText == <<"\n", "h", "\n">>

\* _run_git_review_hook, for a hook that does not fail.
RunGitReviewHook(h) == IF ~HookExecutable(h) THEN <<>> ELSE HookText

\* _make_pr_message
MakePrMessage(r, h) ==
    Strip(LogBodies(heads[r.branch], Ancestors(remotes[r.base]))) \o RunGitReviewHook(h)

----------------------------------------------------------------------------
(* The review platforms. *)

GitlabPrefix == <<"g", "i", "t", "@", "g", "i", "t", "l", "a", "b", ".", "c", "o", "m">>
DotGit == <<".", "g", "i", "t">>
GithubDomain == <<"g", "i", "t", "h", "u", "b", ".", "c", "o", "m">>

\* The ends of the matches of \.git after the prefix: (.*) is greedy, so the
\* regular expression takes the last one.
DotGitAt(url) ==
    {i \in (Len(GitlabPrefix) + 1)..(Len(url) - Len(DotGit) + 1) :
        SubSeq(url, i, i + Len(DotGit) - 1) = DotGit}

\* _GITLAB_URL_REGEX.match(url)[1], None when there is no match.
GitlabMatch(url) ==
    IF StartsWith(url, GitlabPrefix) /\ DotGitAt(url) # {}
    THEN SubSeq(url, Len(GitlabPrefix) + 1, Max(DotGitAt(url)) - 1)
    ELSE None

\* _RemoteGitPlatform.from_url: the class it constructs and the argument.
\* A match is tested for truth as a match object, not by its group.
FromUrl(url) ==
    IF GitlabMatch(url) # None
    THEN [platform |-> "gitlab", project |-> GitlabMatch(url)]
    ELSE IF Contains(url, GithubDomain)
    THEN [platform |-> "github", project |-> None]
    ELSE [platform |-> "unsupported", project |-> None]

----------------------------------------------------------------------------
(* The inputs the model draws from. *)

Main == <<"m">>
Release == <<"r", "/", "1">>
Feature == <<"f">>
DefaultNames == {Main, Release}
Usernames == {<<"u">>, <<"v">>, <<>>}
\* The usernames the workflow is run with: one, or none at all.
RunUsernames == {<<"u">>, <<>>}
GitlabUrl == <<"g", "i", "t", "@", "g", "i", "t", "l", "a", "b", ".", "c", "o", "m", ":", "g", "/", "p", ".", "g", "i", "t">>
GithubUrl == <<"g", "i", "t", "@", "g", "i", "t", "h", "u", "b", ".", "c", "o", "m", ":", "o", "/", "r", ".", "g", "i", "t">>
OtherUrl == <<"g", "i", "t", "@", "e", "x", "a", "m", "p", "l", "e", ".", "o", "r", "g", ":", "g", "/", "p", ".", "g", "i", "t">>
Urls == {GitlabUrl, GithubUrl, OtherUrl}

\* The explicit bases a caller may pass: none, or the branch origin/HEAD names.
Bases == {None, originHEAD}

\* The messages of the commits: a subject alone, or a subject and a body.
SubjectOnly == <<"s", "\n">>
SubjectAndBody == <<"s", "\n", "\n", "b", "\n">>
CommitMessages == {SubjectOnly, SubjectAndBody}

\* The review hook of the repository: no file, a file that is not executable,
\* an executable that exits with 0, an executable that exits with another status.
Hooks == {"absent", "not executable", "ok", "fails"}

EmptyCache == [head |-> Unset, default |-> Unset, existing |-> Unset]
NoArgs == [username |-> <<>>, base |-> None, force |-> FALSE, submit |-> FALSE]
NoRequest == [message |-> None, title |-> None, description |-> None]
NoPrev == [valid |-> FALSE, refs |-> NoRefs, reviewFailed |-> FALSE, explicit |-> FALSE]

RunInit ==
    /\ cache = EmptyCache
    /\ pc = "idle"
    /\ args = NoArgs
    /\ refs = NoRefs
    /\ error = "none"
    /\ trace = <<>>
    /\ pushes = <<>>
    /\ reviews = {}
    /\ submits = 0
    /\ runs = 0
    /\ moved = FALSE
    /\ hint = <<>>
    /\ prev = NoPrev
    /\ hook = "unread"
    /\ sent = NoRequest

\* A fresh clone: one commit, the default branch and a feature branch on it.
Init ==
    /\ commits = <<[parent |-> 0, tree |-> 0, msg |-> SubjectOnly]>>
    /\ originHEAD \in DefaultNames
    /\ heads = [n \in {originHEAD, Feature} |-> 1]
    /\ remotes = [n \in {originHEAD} |-> 1]
    /\ HEAD \in {originHEAD, Feature}
    /\ worktree = 0
    /\ mergeCfg = [n \in {originHEAD} |-> RefsHeads \o originHEAD]
    /\ remoteUrl \in Urls
    /\ RunInit

----------------------------------------------------------------------------
(* What the user does to the repository between two runs. *)

\* Edit files of the working tree.
UserEdit(t) ==
    /\ pc = "idle"
    /\ t # worktree
    /\ worktree' = t
    /\ prev' = NoPrev
    /\ UNCHANGED <<commits, heads, remotes, originHEAD, HEAD, mergeCfg, remoteUrl,
                   cache, pc, args, refs, error, trace, pushes, reviews, submits,
                   runs, moved, hint, hook, sent>>

\* git commit -a (--allow-empty when nothing was edited).
UserCommit(m, maxCommits) ==
    /\ pc = "idle"
    /\ Len(commits) < maxCommits
    /\ commits' = Append(commits, [parent |-> heads[HEAD], tree |-> worktree, msg |-> m])
    /\ heads' = [heads EXCEPT ![HEAD] = Len(commits) + 1]
    /\ prev' = NoPrev
    /\ UNCHANGED <<remotes, originHEAD, HEAD, worktree, mergeCfg, remoteUrl,
                   cache, pc, args, refs, error, trace, pushes, reviews, submits,
                   runs, moved, hint, hook, sent>>

\* git checkout b, which needs a clean tree here.
UserCheckout(b) ==
    /\ pc = "idle"
    /\ b # HEAD
    /\ worktree = commits[heads[HEAD]].tree
    /\ HEAD' = b
    /\ worktree' = commits[heads[b]].tree
    /\ prev' = NoPrev
    /\ UNCHANGED <<commits, heads, remotes, originHEAD, mergeCfg, remoteUrl,
                   cache, pc, args, refs, error, trace, pushes, reviews, submits,
                   runs, moved, hint, hook, sent>>

----------------------------------------------------------------------------
(* prepare_push_and_request_review, step by step. *)

Fail(kind) == pc' = "failed" /\ error' = kind

\* The call, and the username check of lines 231-234.
StartRun(username, base, force, submit) ==
    /\ pc = "idle"
    /\ runs' = runs + 1
    /\ args' = [username |-> username, base |-> base, force |-> force, submit |-> submit]
    /\ IF username = <<>>
       THEN Fail("no username")
       ELSE pc' = "resolve" /\ error' = "none"
    /\ UNCHANGED <<repoVars, cache, refs, trace, hint, moved, pushes, reviews, submits,
                   prev, hook, sent>>

\* A bug that pushes without the validation of lines 236-239.
AfterResolveSkipsValidation == "push"

\* where a run goes once line 235 has returned
AfterResolve == "validate"

\* line 235: refs = _get_git_branches(username, base)
Resolve ==
    /\ pc = "resolve"
    /\ LET r == GetGitBranches(args.username, args.base)
       IN /\ cache' = [head |-> GetHead, default |-> GetDefault,
                       existing |-> IF r.err = "none" THEN GetExistingRemote
                                    ELSE cache.existing]
          /\ hint' = r.aux
          /\ refs' = r.refs
          /\ IF r.err = "none"
             THEN pc' = AfterResolve /\ error' = "none" /\ trace' = Append(trace, "resolved")
             ELSE Fail(r.err) /\ trace' = trace
    /\ UNCHANGED <<repoVars, args, pushes, reviews, submits, runs, moved, prev, hook, sent>>

\* A bug that compares commits instead of contents at line 237.
NothingToSubmitByCommit(merge_base) == merge_base = heads[HEAD]

\* the condition of line 237
NothingToSubmit(merge_base) == ~HasGitDiff(merge_base)

\* lines 236-239: the merge base with origin/<base> and the diff against it.
Validate ==
    /\ pc = "validate"
    /\ IF refs.base \notin DOMAIN remotes
       THEN Fail("git failed") /\ trace' = trace
       ELSE LET merge_base == MergeBase(heads[HEAD], remotes[refs.base])
            IN IF merge_base = 0
               THEN Fail("git failed") /\ trace' = trace
               ELSE IF NothingToSubmit(merge_base)
               THEN Fail("already submitted") /\ trace' = trace
               ELSE pc' = "push" /\ error' = "none" /\ trace' = Append(trace, "validated")
    /\ UNCHANGED <<repoVars, cache, args, refs, pushes, reviews, submits, runs, moved,
                   hint, prev, hook, sent>>

\* Whether the remote accepts the push: a new branch, a fast-forward, or -f.
PushAccepted(forced) ==
    IF forced \/ refs.remote \notin DOMAIN remotes THEN TRUE
    ELSE remotes[refs.remote] \in Ancestors(heads[refs.branch])

\* the -f of lines 125-126
ForceFlag(is_forced) == is_forced

\* A bug that requests the review of a forced push too.
NeverSkipsReview(is_forced) == FALSE

\* whether line 241 skips the review request
SkipsReview(is_forced) == is_forced

\* where the run goes after lines 241-242
AfterReview == IF args.submit THEN "submit" ELSE "done"

\* line 240: _push(refs, is_forced); git may reject or fail the push.
Push(ok) ==
    /\ pc = "push"
    /\ ok => PushAccepted(ForceFlag(args.force))
    /\ pushes' = Append(pushes, [src |-> refs.branch, dst |-> refs.remote,
                                 forced |-> ForceFlag(args.force), ok |-> ok])
    /\ IF ok
       THEN /\ remotes' = [n \in DOMAIN remotes \cup {refs.remote} |->
                              IF n = refs.remote THEN heads[refs.branch] ELSE remotes[n]]
            /\ mergeCfg' = [n \in DOMAIN mergeCfg \cup {refs.branch} |->
                              IF n = refs.branch THEN RefsHeads \o refs.remote
                              ELSE mergeCfg[n]]
            /\ trace' = Append(trace, "pushed")
            /\ error' = "none"
            /\ pc' = IF SkipsReview(args.force) THEN AfterReview ELSE "review"
       ELSE /\ UNCHANGED <<remotes, mergeCfg, trace>>
            /\ Fail("git failed")
    /\ UNCHANGED <<commits, heads, originHEAD, HEAD, worktree, remoteUrl, cache, args,
                   refs, reviews, submits, runs, moved, hint, prev, hook, sent>>

\* What the outside world may do to a review request: the platform client or
\* helper is not set up, the platform rejects the request.
ReviewOutcomes == {"ok", "not set up", "rejected"}

\* The errors a run that fails in _request_review ends with.
ReviewFailures ==
    {"hook failed", "platform not recognized", "platform not set up", "platform failed",
     "not enough values to unpack"}

\* _GitlabPlatform.request_review, lines 181-187: the title and the
\* description, None when the unpacking of line 181 raises ValueError.
GitlabParameters(message) ==
    LET parts == SplitOnce(message, "\n")
    IN IF Len(parts) = 2
       THEN [title |-> parts[1], description |-> parts[2]]
       ELSE [title |-> None, description |-> None]

\* The request a backend creates, as the platform holds it: the project, the
\* source and the target of lines 184-185 and 210-211.
ReviewRequest(backend, r) ==
    [platform |-> backend.platform, project |-> backend.project,
     source |-> r.remote, target |-> r.base]

\* What goes with the request: the message given to hub pull-request (209),
\* the title and the description of the merge request (183, 186).
RequestParameters(backend, message) ==
    [message |-> message,
     title |-> IF backend.platform = "gitlab"
               THEN GitlabParameters(message).title ELSE None,
     description |-> IF backend.platform = "gitlab"
                     THEN GitlabParameters(message).description ELSE None]

\* line 242: _request_review(refs, reviewers), with the hook as found on disk.
RequestReview(h, outcome) ==
    /\ pc = "review"
    /\ LET backend == FromUrl(remoteUrl)
           message == MakePrMessage(refs, h)
       IN IF refs.base \notin DOMAIN remotes
          THEN /\ Fail("git failed") /\ trace' = trace /\ reviews' = reviews
               /\ hook' = hook /\ sent' = sent
          ELSE IF HookExecutable(h) /\ HookFails(h)
          THEN /\ Fail("hook failed") /\ trace' = trace /\ reviews' = reviews
               /\ hook' = h /\ sent' = sent
          ELSE IF backend.platform = "unsupported"
          THEN /\ Fail("platform not recognized")
               /\ trace' = Append(trace, "message")
               /\ reviews' = reviews /\ hook' = h /\ sent' = sent
          ELSE IF outcome = "not set up"
          THEN /\ Fail("platform not set up")
               /\ trace' = Append(trace, "message")
               /\ reviews' = reviews /\ hook' = h /\ sent' = sent
          ELSE IF backend.platform = "gitlab" /\ GitlabParameters(message).title = None
          THEN /\ Fail("not enough values to unpack")
               /\ trace' = trace \o <<"message", "backend">>
               /\ reviews' = reviews /\ hook' = h /\ sent' = sent
          ELSE IF outcome = "rejected"
          THEN /\ Fail("platform failed")
               /\ trace' = trace \o <<"message", "backend">>
               /\ reviews' = reviews /\ hook' = h /\ sent' = sent
          ELSE /\ pc' = AfterReview
               /\ error' = "none"
               /\ trace' = trace \o <<"message", "backend", "requested">>
               /\ reviews' = reviews \cup {ReviewRequest(backend, refs)}
               /\ sent' = RequestParameters(backend, message)
               /\ hook' = h
    /\ UNCHANGED <<repoVars, cache, args, refs, pushes, submits, runs, moved, hint,
                   prev>>

\* The two SHAs of lines 245-246.
LocalSha == heads[refs.branch]
RemoteSha == remotes[refs.remote]

\* A bug that submits without comparing the two.
ShasNeverDiffer == FALSE

\* the comparison of line 247
ShasDiffer == LocalSha # RemoteSha

\* lines 243-249: the consistency check and git submit, which may fail.
Submit(ok) ==
    /\ pc = "submit"
    /\ IF ShasDiffer
       THEN Fail("not in the same state") /\ UNCHANGED <<submits, trace>>
       ELSE /\ submits' = submits + 1
            /\ IF ok
               THEN pc' = "done" /\ error' = "none" /\ trace' = Append(trace, "submitted")
               ELSE Fail("git failed") /\ trace' = trace
    /\ UNCHANGED <<repoVars, cache, args, refs, pushes, reviews, runs, moved, hint,
                   prev, hook, sent>>

\* The remote-tracking ref of the pushed branch is rewritten while the run
\* waits on the platform or the hook (a fetch after a server-side rewrite).
TrackingRefMoves(c) ==
    /\ pc \in {"review", "submit"}
    /\ ~moved
    /\ refs.remote \in DOMAIN remotes
    /\ c # remotes[refs.remote]
    /\ remotes' = [remotes EXCEPT ![refs.remote] = c]
    /\ moved' = TRUE
    /\ UNCHANGED <<commits, heads, originHEAD, HEAD, worktree, mergeCfg, remoteUrl,
                   cache, pc, args, refs, error, trace, pushes, reviews, submits,
                   runs, hint, prev, hook, sent>>

\* The process exits: its caches go with it.
Exit ==
    /\ pc \in {"done", "failed"}
    /\ pc' = "idle"
    /\ cache' = EmptyCache
    /\ prev' = [valid |-> TRUE, refs |-> refs,
                reviewFailed |-> error \in ReviewFailures,
                explicit |-> Truthy(args.base)]
    /\ submits' = 0
    /\ args' = NoArgs
    /\ refs' = NoRefs
    /\ error' = "none"
    /\ trace' = <<>>
    /\ pushes' = <<>>
    /\ hint' = <<>>
    /\ moved' = FALSE
    /\ hook' = "unread"
    /\ sent' = NoRequest
    /\ UNCHANGED <<repoVars, reviews, runs>>

\* What the user does between two runs, at most `limit` runs and
\* `maxCommits` commits in all.
UserActs(limit, maxCommits) ==
    /\ runs < limit
    /\ \/ \E t \in 0..MaxTree : UserEdit(t)
       \/ \E m \in CommitMessages : UserCommit(m, maxCommits)
       \/ \E b \in DOMAIN heads : UserCheckout(b)

\* A call of the script with any arguments, at most `limit` calls in all.
Invoke(limit) ==
    /\ runs < limit
    /\ \E u \in RunUsernames, b \in Bases, f \in BOOLEAN, s \in BOOLEAN :
          StartRun(u, b, f, s)

\* The steps of a call of prepare_push_and_request_review.
WorkflowSteps ==
    \/ Resolve
    \/ Validate
    \/ \E ok \in BOOLEAN : Push(ok)
    \/ \E h \in Hooks, o \in ReviewOutcomes : RequestReview(h, o)
    \/ \E ok \in BOOLEAN : Submit(ok)
    \/ \E c \in Commits : TrackingRefMoves(c)

\* The steps of a run, and the process's exit.
RunSteps == WorkflowSteps \/ Exit

Next == UserActs(MaxRuns, MaxCommits) \/ Invoke(MaxRuns) \/ RunSteps

\* One run of the script on a fresh clone the user has worked in.
Spec == Init /\ [][Next]_vars

NextRerun == UserActs(MaxReruns, MaxRerunCommits) \/ Invoke(MaxReruns) \/ RunSteps

\* Successive runs of the script, each in a process of its own.
SpecRerun == Init /\ [][NextRerun]_vars

----------------------------------------------------------------------------
(* Several calls of the workflow in one process. *)

\* prepare_push_and_request_review returns or raises to a caller that goes
\* on in the same process: what the lru_caches hold stays.
Return ==
    /\ pc \in {"done", "failed"}
    /\ pc' = "idle"
    /\ prev' = [valid |-> TRUE, refs |-> refs,
                reviewFailed |-> error \in ReviewFailures,
                explicit |-> Truthy(args.base)]
    /\ submits' = 0
    /\ args' = NoArgs
    /\ refs' = NoRefs
    /\ error' = "none"
    /\ trace' = <<>>
    /\ pushes' = <<>>
    /\ hint' = <<>>
    /\ moved' = FALSE
    /\ hook' = "unread"
    /\ sent' = NoRequest
    /\ UNCHANGED <<repoVars, cache, reviews, runs>>

NextProcess ==
    UserActs(MaxCalls, MaxCommits) \/ Invoke(MaxCalls) \/ WorkflowSteps \/ Return

\* Successive calls of the workflow in one process (main called again, or the
\* module used as a library).
SpecProcess == Init /\ [][NextProcess]_vars

----------------------------------------------------------------------------
(* The resolver on a wide family of repositories. *)

\* Remote branches besides the default one.
OtherRemotes == {<<"d">>, <<"x", "/", "d">>}
\* Upstream branches a feature branch may have been pushed to before.
Upstreams == {<<"u", "-", "f">>, <<"x", "/", "f">>}
\* The explicit bases given to the resolver.
ResolveBases == {None, originHEAD, <<"d">>}

\* A linear history of up to MaxChain commits with the feature branch at its
\* tip, the default branch and at most one other remote branch somewhere on
\* it, with or without an upstream recorded for the feature branch.
InitResolve ==
    /\ \E len \in 1..MaxChain :
          /\ commits = [i \in 1..len |-> [parent |-> i - 1, tree |-> 0, msg |-> SubjectOnly]]
          /\ originHEAD \in DefaultNames
          /\ \E d \in 1..len :
                /\ heads = [n \in {originHEAD, Feature} |->
                               IF n = Feature THEN len ELSE d]
                /\ \/ remotes = [n \in {originHEAD} |-> d]
                   \/ \E o \in OtherRemotes, at \in 1..len :
                         remotes = [n \in {originHEAD, o} |-> IF n = o THEN at ELSE d]
    /\ HEAD \in {originHEAD, Feature}
    /\ worktree \in 0..MaxTree
    /\ \/ mergeCfg = [n \in {originHEAD} |-> RefsHeads \o originHEAD]
       \/ \E up \in Upstreams :
             mergeCfg = [n \in {originHEAD, Feature} |->
                            RefsHeads \o (IF n = Feature THEN up ELSE originHEAD)]
    /\ remoteUrl = GithubUrl
    /\ RunInit

NextResolve ==
    \/ \E u \in Usernames, b \in ResolveBases : runs < MaxRuns /\ StartRun(u, b, FALSE, FALSE)
    \/ Resolve

\* One call of the resolver on each of these repositories.
SpecResolve == InitResolve /\ [][NextResolve]_vars

----------------------------------------------------------------------------
(* The resolver on a family of usernames and recorded upstreams. *)

\* The characters of the usernames: a letter, the number sign, two accented
\* letters and the fullwidth number sign U+FF03.
NameChars == {"u", "#", "é", "ß", FullwidthNumberSign}
Names == UNION {[1..n -> NameChars] : n \in 1..MaxNameLen}
\* Upstream branches recorded by an earlier push of the user's own.
RecordedUpstreams == {<<"u", "-", "f">>, <<"#", "f">>, <<"é">>}

\* A fresh clone with the feature branch checked out, with or without an
\* upstream recorded for it.
InitCleanup ==
    /\ commits = <<[parent |-> 0, tree |-> 0, msg |-> SubjectOnly]>>
    /\ originHEAD \in DefaultNames
    /\ heads = [n \in {originHEAD, Feature} |-> 1]
    /\ remotes = [n \in {originHEAD} |-> 1]
    /\ HEAD = Feature
    /\ worktree = 0
    /\ \/ mergeCfg = [n \in {originHEAD} |-> RefsHeads \o originHEAD]
       \/ \E up \in RecordedUpstreams :
             mergeCfg = [n \in {originHEAD, Feature} |->
                            RefsHeads \o (IF n = Feature THEN up ELSE originHEAD)]
    /\ remoteUrl = GithubUrl
    /\ RunInit

NextCleanup ==
    \/ \E u \in Names : runs < MaxRuns /\ StartRun(u, None, FALSE, FALSE)
    \/ Resolve

\* One call of the resolver for each of these usernames.
SpecCleanup == InitCleanup /\ [][NextCleanup]_vars

----------------------------------------------------------------------------
(* The claims. *)

InTrace(step) == \E i \in 1..Len(trace) : trace[i] = step

\* The resolver has run in the current run.
ResolverRan == pc \notin {"idle", "resolve"} /\ cache.head # Unset

\* C1: a run without explicit base and without force that follows, on an
\* unchanged repository, a run of the same kind that pushed and then failed in
\* the review request resolves the same references and reaches the push.
C1_RerunIdempotent ==
    (/\ pc \in {"done", "failed"}
     /\ prev.valid /\ prev.reviewFailed /\ ~prev.explicit
     /\ args.username # <<>> /\ ~Truthy(args.base) /\ ~args.force)
    => (refs = prev.refs /\ pushes # <<>>)

\* The commit and the merge base the validation of a run compares.
HeadCommit == heads[HEAD]
BaseMergeBase == MergeBase(heads[HEAD], remotes[refs.base])
CanValidate ==
    pc = "validate" /\ refs.base \in DOMAIN remotes /\ BaseMergeBase # 0

NoDiffFailure == pc' = "failed" /\ error' = "already submitted" /\ pushes' = <<>>

\* C2 as stated: the validation fails with the no-diff error and without a
\* push when HEAD is the merge base, and goes on to the push whenever HEAD has
\* a commit the merge base does not have.
C2_NoDiffByCommit ==
    [][CanValidate =>
          IF HeadCommit = BaseMergeBase THEN NoDiffFailure ELSE pc' = "push"]_vars

\* C2 amended: the validation fails with the no-diff error and without a push
\* when the content of HEAD is that of the merge base (as it is when HEAD is
\* the merge base), and goes on to the push whenever the two contents differ.
C2_NoDiffByContent ==
    [][CanValidate =>
          IF commits[HeadCommit].tree = commits[BaseMergeBase].tree
          THEN NoDiffFailure ELSE pc' = "push"]_vars

\* A run refused as already submitted although HEAD has a commit of its own.
C2_Witness ==
    /\ pc = "failed" /\ error = "already submitted"
    /\ refs.base \in DOMAIN remotes
    /\ HeadCommit # BaseMergeBase

\* C3: a forced run that passed resolution and validation issues the push with
\* the force flag and nothing of the review request: no message, no backend,
\* no request, whatever the remote URL.
C3_ForceSkipsReview ==
    /\ []((args.force /\ pc # "idle") =>
            /\ pc # "review"
            /\ ~InTrace("message") /\ ~InTrace("backend") /\ ~InTrace("requested")
            /\ (InTrace("validated") /\ pc # "push") =>
                   (Len(pushes) = 1 /\ pushes[1].forced
                    /\ pushes[1].src = refs.branch /\ pushes[1].dst = refs.remote))
    /\ [][(args'.force /\ pc' # "idle") => reviews' = reviews]_vars

\* A forced run that pushed and ended.
C3_Witness == args.force /\ pc = "done" /\ InTrace("pushed") /\ pushes[1].ok

\* C4: when a run with submit reaches the comparison with the remote-tracking
\* ref of the pushed branch at another commit than the local branch, it fails
\* with the consistency error, git submit is not invoked, and the push and the
\* review request stay as they were.
C4_SubmitConsistency ==
    [][(pc = "submit" /\ pc' # "submit"
        /\ heads[refs.branch] # remotes[refs.remote]) =>
          /\ args.submit
          /\ pc' = "failed" /\ error' = "not in the same state"
          /\ submits' = 0
          /\ remotes' = remotes /\ mergeCfg' = mergeCfg /\ reviews' = reviews
          /\ mergeCfg[refs.branch] = RefsHeads \o refs.remote
          /\ (~args.force => \E r \in reviews :
                                r.source = refs.remote /\ r.target = refs.base)]_vars

\* A run that pushed, requested the review and failed the comparison.
C4_Witness ==
    /\ pc = "failed" /\ error = "not in the same state"
    /\ ~args.force /\ InTrace("requested") /\ reviews # {}

IsPrefix(a, b) == Len(a) <= Len(b) /\ SubSeq(b, 1, Len(a)) = a

\* The order of the steps of a run that requests a review, and of a forced one.
FullOrder == <<"resolved", "validated", "pushed", "message", "backend", "requested", "submitted">>
ForcedOrder == <<"resolved", "validated", "pushed", "submitted">>

\* C5: the steps of a run come in the order resolve, validate, push, review
\* request, submit: a push only after resolution and validation, a review
\* request only after the push, a submit only after the push and (unless
\* forced) the review request, and nothing after a failure.
C5_StepOrder ==
    /\ [](IsPrefix(trace, IF args.force THEN ForcedOrder ELSE FullOrder)
          /\ (pushes # <<>> => InTrace("validated"))
          /\ (submits > 0 => InTrace("pushed"))
          /\ (submits > 0 /\ ~args.force => InTrace("requested")))
    /\ [][/\ (remotes' # remotes /\ pc = "push") => trace = <<"resolved", "validated">>
          /\ reviews' # reviews => InTrace("pushed")
          /\ pc = "failed" =>
                (pc' = "idle" /\ remotes' = remotes /\ mergeCfg' = mergeCfg
                 /\ reviews' = reviews)]_vars

\* A run that went through every step.
C5_Witness == pc = "done" /\ trace = FullOrder

\* C6: the resolver run on the remote's default branch fails with the "branch
\* required" error, which carries the other local branches, whether the tree
\* is clean or dirty.
C6_BranchRequired ==
    (ResolverRan /\ HEAD = originHEAD) =>
        /\ pc = "failed" /\ error = "branch required"
        /\ hint = Sorted(DOMAIN heads \ {originHEAD})

\* C7 as stated: the resolver run on a dirty tree fails with the "dirty tree"
\* error and returns no references.
C7_DirtyAlways ==
    (ResolverRan /\ ~InTrace("validated") /\ worktree # commits[heads[HEAD]].tree) =>
        (pc = "failed" /\ error = "dirty" /\ refs = NoRefs)

\* C7 amended: the resolver run on a dirty tree, on a branch that is not the
\* one it reads as the default, fails with the "dirty tree" error and returns
\* no references, with or without an explicit base.
C7_DirtyOffDefault ==
    (/\ ResolverRan /\ ~InTrace("validated")
     /\ worktree # commits[heads[HEAD]].tree
     /\ HEAD # ReadDefault) =>
        (pc = "failed" /\ error = "dirty" /\ refs = NoRefs)

\* A dirty feature branch refused although an explicit base was given.
C7_Witness ==
    /\ pc = "failed" /\ error = "dirty"
    /\ HEAD = Feature /\ Truthy(args.base)

\* None of the commits the heuristic scans is on a non-default remote branch.
NoneOnOtherRemote ==
    LET shas == RevList(heads[HEAD], RevListMaxCount)
    IN \A i \in 1..Len(shas) : \A n \in DOMAIN remotes \ {originHEAD} :
          shas[i] \notin Ancestors(remotes[n])

\* C8: on a non-default branch with a clean tree the resolver returns the
\* checked-out branch as branch, and as base the explicit base when there is
\* one, else the default branch when no scanned commit is on another remote
\* branch.
C8_ResolvedBase ==
    (/\ ResolverRan /\ args.username # <<>>
     /\ HEAD # originHEAD
     /\ worktree = commits[heads[HEAD]].tree) =>
        /\ pc # "failed"
        /\ refs.branch = HEAD
        /\ Truthy(args.base) => refs.base = args.base
        /\ (~Truthy(args.base) /\ NoneOnOtherRemote) => refs.base = originHEAD

\* C9: the resolver returns as remote the short name of the recorded upstream
\* merge ref when there is one, whatever the username, and the cleaned
\* "<username>-<branch>" only when there is none.
C9_RemoteReused ==
    (ResolverRan /\ pc # "failed" /\ trace = <<"resolved">>) =>
        IF HEAD \in DOMAIN mergeCfg
        THEN RefsHeads \o refs.remote = mergeCfg[HEAD]
        ELSE refs.remote = CleanupBranchName(args.username \o <<"-">> \o HEAD)

\* An upstream recorded under another username is reused.
C9_Witness ==
    /\ pc = "validate" /\ HEAD = Feature /\ args.username = <<"v">>
    /\ Feature \in DOMAIN mergeCfg
    /\ refs.remote = <<"u", "-", "f">>

\* C10: the factory gives the GitLab backend of project <path> for
\* git@gitlab.com:<path>.git, the GitHub backend for a URL of the GitHub
\* domain, and the unsupported-platform error for any other URL.
C10_Factory ==
    /\ \A r \in reviews :
          /\ r.platform = "gitlab" =>
                remoteUrl = GitlabPrefix \o <<":">> \o r.project \o DotGit
          /\ r.platform = "github" => Contains(remoteUrl, GithubDomain)
    /\ (pc = "failed" /\ error = "platform not recognized") =>
          (~StartsWith(remoteUrl, GitlabPrefix) /\ ~Contains(remoteUrl, GithubDomain))

\* The name a run synthesizes for the pushed branch: "<username>-<branch>".
UserBranch == args.username \o <<"-">> \o HEAD

\* The run of the end-to-end scenario: a non-forced run without explicit base
\* on a non-default branch with a clean tree, no upstream recorded before the
\* run, a commit the default branch does not have, and none of the scanned
\* commits on a remote branch other than the default one (and, once the run
\* has pushed, the branch it pushed).
InScenario ==
    /\ pc \notin {"idle", "resolve"} /\ ResolverRan
    /\ args.username # <<>> /\ ~args.force /\ ~Truthy(args.base)
    /\ HEAD # originHEAD
    /\ worktree = commits[heads[HEAD]].tree
    /\ IF InTrace("pushed") THEN cache.existing = None ELSE HEAD \notin DOMAIN mergeCfg
    /\ heads[HEAD] \notin Ancestors(remotes[originHEAD])
    /\ LET shas == RevList(heads[HEAD], RevListMaxCount)
       IN \A i \in 1..Len(shas) : \A n \in DOMAIN remotes \ {originHEAD} :
             \/ InTrace("pushed") /\ n = UserBranch
             \/ shas[i] \notin Ancestors(remotes[n])

\* The message of the scenario: the bodies of the commits the default branch
\* does not have, then what the hook printed.
ScenarioMessage ==
    Strip(LogBodies(heads[HEAD], Ancestors(remotes[originHEAD])))
        \o (IF hook = "ok" THEN HookText ELSE <<>>)

\* C11: the run of the end-to-end scenario resolves base = default and
\* remote = "<username>-<branch>", pushes branch:remote, and requests the
\* review with the commit bodies of base..branch followed by the hook output
\* as message, the remote as source and the default branch as target.
C11_EndToEnd ==
    InScenario =>
        /\ InTrace("resolved")
        /\ refs.branch = HEAD /\ refs.default = originHEAD
        /\ refs.base = originHEAD /\ refs.remote = UserBranch
        /\ pushes # <<>> =>
              (pushes[1].src = HEAD /\ pushes[1].dst = UserBranch /\ ~pushes[1].forced)
        /\ InTrace("requested") =>
              /\ \E r \in reviews : r.source = UserBranch /\ r.target = originHEAD
              /\ sent.message = ScenarioMessage

\* A string without '#' and without a character outside ASCII.
Sanitized(s) == \A i \in 1..Len(s) : s[i] # "#" /\ Ord(s[i]) < 128

\* C12: the name the resolver synthesizes is the clean-up of
\* "<username>-<branch>", cleaning it up again leaves it as it is, and it has
\* no '#' and no character outside ASCII.
C12_CleanupIdempotent ==
    (ResolverRan /\ InTrace("resolved") /\ HEAD \notin DOMAIN mergeCfg) =>
        /\ refs.remote = CleanupBranchName(UserBranch)
        /\ CleanupBranchName(refs.remote) = refs.remote
        /\ Sanitized(refs.remote)

\* C15: the remote of the references the resolver returns has no '#' and no
\* character outside ASCII, synthesized or reused from the recorded upstream.
C15_RemoteSanitized ==
    (ResolverRan /\ InTrace("resolved")) => Sanitized(refs.remote)

\* C13: in every call of a process, the first or a later one, the head, the
\* default and the upstream the resolver works with are those of the
\* repository at the time of that call.
C13_FreshEachCall ==
    /\ (InTrace("resolved") /\ ~InTrace("pushed")) =>
          /\ refs.branch = HEAD
          /\ refs.default = ReadDefault
          /\ refs.remote = IF HEAD \in DOMAIN mergeCfg
                           THEN DropChars(mergeCfg[HEAD], Len(RefsHeadsLiteral))
                           ELSE CleanupBranchName(UserBranch)
    /\ (pc = "failed" /\ error \in {"branch required", "list.remove(x): x not in list"}) =>
          HEAD = ReadDefault

\* C14: the base of the references the resolver returns names a branch of the
\* remote, as the remote-tracking refs show it at that time.
C14_BaseOnRemote ==
    (ResolverRan /\ InTrace("resolved") /\ ~InTrace("pushed")) =>
        refs.base \in DOMAIN remotes

\* The scanned commits, and the remote branches that contain the first of
\* them that is on a remote branch at all.
Scanned == RevList(heads[HEAD], RevListMaxCount)
OnRemote(sha) == {n \in DOMAIN remotes : sha \in Ancestors(remotes[n])}
FirstMatch ==
    CHOOSE i \in 1..Len(Scanned) :
        OnRemote(Scanned[i]) # {} /\ \A j \in 1..(i - 1) : OnRemote(Scanned[j]) = {}

\* C16: without explicit base, the heuristic stops at the nearest of the five
\* most recent commits that is on a remote branch; when the default branch is
\* not among the remote branches containing that commit, the base is the
\* first of them in ref-name order, by its full short name; when none of the
\* five commits is on a remote branch, the base is the default branch.
C16_BestBase ==
    (ResolverRan /\ InTrace("resolved") /\ ~InTrace("pushed") /\ ~Truthy(args.base)) =>
        IF \A i \in 1..Len(Scanned) : OnRemote(Scanned[i]) = {}
        THEN refs.base = ReadDefault
        ELSE originHEAD \notin OnRemote(Scanned[FirstMatch]) =>
                refs.base = Sorted(OnRemote(Scanned[FirstMatch]))[1]

\* git config branch.<head>.merge exited with a non-zero status in this run:
\* it is then that _get_existing_remote has None to return.
ConfigCommandFailed == cache.existing = None

\* The other commands of the run that exited with a non-zero status:
\* git merge-base, git push, the hook.
OtherCommandFailed ==
    \/ InTrace("resolved") /\ ~InTrace("validated") /\ pc # "validate"
           /\ refs.base \notin DOMAIN remotes
    \/ pushes # <<>> /\ ~pushes[Len(pushes)].ok
    \/ hook = "fails"

\* C17: a run in which a git, hook or platform command failed has aborted
\* with an error; it is never going on with a value put in place of the
\* command's result.
C17_NoLocalRecovery ==
    (pc # "idle" /\ (ConfigCommandFailed \/ OtherCommandFailed)) =>
        (pc = "failed" /\ error # "none")

\* The first line of a message and what follows it.
LineEnd(s) ==
    IF \A i \in 1..Len(s) : s[i] # "\n" THEN Len(s) + 1
    ELSE CHOOSE j \in 1..Len(s) : s[j] = "\n" /\ \A k \in 1..(j - 1) : s[k] # "\n"
FirstLine(s) == SubSeq(s, 1, LineEnd(s) - 1)
Remainder(s) == SubSeq(s, LineEnd(s) + 1, Len(s))

\* C18: on GitLab, a run whose backend was constructed is refused by the
\* platform only, never for the shape of its message, and the merge request
\* it creates has the first line of the message as title, the remainder as
\* description, the remote as source branch and the base as target branch.
C18_GitlabRequest ==
    FromUrl(remoteUrl).platform = "gitlab" =>
        /\ (pc = "failed" /\ InTrace("backend") /\ ~InTrace("requested")) =>
               error = "platform failed"
        /\ InTrace("requested") =>
               /\ \E r \in reviews : r.source = refs.remote /\ r.target = refs.base
               /\ sent.title = FirstLine(sent.message)
               /\ sent.description = Remainder(sent.message)

\* C19: a run that finds an executable hook exiting with a non-zero status
\* fails with the execution error before any message is passed on, any
\* backend constructed and any request created; a run that finds no hook, or
\* one that is not executable, goes on with the log alone as message.
C19_HookFailure ==
    /\ [](/\ hook = "fails" =>
               /\ pc = "failed" /\ error = "hook failed"
               /\ ~InTrace("message") /\ ~InTrace("backend") /\ ~InTrace("requested")
          /\ hook \in {"absent", "not executable"} =>
               (InTrace("message") /\ error # "hook failed"))
    /\ [][/\ hook' = "fails" => reviews' = reviews
          /\ (pc = "review" /\ pc' \notin {"review", "failed"}
                 /\ hook' \in {"absent", "not executable"}) =>
                /\ \E r \in reviews' : r.source = refs.remote /\ r.target = refs.base
                /\ sent'.message = Strip(LogBodies(heads[refs.branch],
                                                   Ancestors(remotes[refs.base])))]_vars

\* A run that pushed and was stopped by its hook.
C19_Witness == hook = "fails" /\ pc = "failed" /\ InTrace("pushed") /\ pushes[1].ok

\* C20: no review request, of a first run or of a later one, has the branch
\* it is sent from as the branch it is to be merged onto.
C20_SourceDiffersFromTarget == \A r \in reviews : r.source # r.target

====
